---- MODULE Spec2Model ----
(***************************************************************************)
(* tu-planner: a personal-calendar proxy.                                  *)
(*   src/src/config.rs  Locale, TissConfig (link, locale)                  *)
(*   src/src/main.rs    SPK_REGEX, calendar (the request handler),         *)
(*                      calendar_response                                  *)
(*                                                                         *)
(* Strings are sequences.  A URL query and the names and values of its     *)
(* parameters are sequences of tokens: the separators "&" and "=" and      *)
(* words of unreserved characters ("locale", "en", ...).  A description    *)
(* is a sequence of one-character strings.                                 *)
(***************************************************************************)
EXTENDS Integers, Sequences, FiniteSets, TLC

VARIABLES
    config,     \* the TissConfig value held by AppConfig
    links,      \* the URLs returned by the calls of config.link() so far
    locales,    \* the results returned by the calls of config.locale() so far
    document,   \* the components of a Calendar handed to the event filter
    passes,     \* the component sequences left by successive retain passes
    pc,         \* per request: the handler's position
    upstream,   \* per request: what the upstream GET produced
    calendar,   \* per request: the handler's `calendar` (text, then Calendar)
    response,   \* per request: the HttpResponse returned to the client
    steps,      \* per request: the pipeline steps executed, in order
    gets        \* per request: the number of upstream GETs issued

vars == <<config, links, locales, document, passes,
          pc, upstream, calendar, response, steps, gets>>

(***************************************************************************)
(* Bounds                                                                  *)
(***************************************************************************)
MaxQueryLen == 4
MaxCalls == 2
MaxComponents == 3
NumRequests == 2

(***************************************************************************)
(* config.rs: Locale                                                       *)
(***************************************************************************)
Locale == {"Locale::de", "Locale::en"}

\* impl Display for Locale
LocaleToString(l) == IF l = "Locale::de" THEN <<"de">> ELSE <<"en">>

Ok(v) == [ok |-> TRUE, value |-> v, err |-> "-"]
Err(e) == [ok |-> FALSE, value |-> "-", err |-> e]

\* impl FromStr for Locale
LocaleFromStr(s) ==
    IF s = <<"de">> THEN Ok("Locale::de")
    ELSE IF s = <<"en">> THEN Ok("Locale::en")
    ELSE Err("UnrecognizedLocale")

(***************************************************************************)
(* Url, as far as TissConfig uses it: everything before the query, the     *)
(* query (absent, or a token sequence) and the fragment.                   *)
(***************************************************************************)
DefaultEndpointBase == "https://tiss.tuwien.ac.at/events/rest/calendar/personal"
NoFragment == "<none>"
QueryTokens == {"&", "=", "locale", "en", "de"}
Fragments == {NoFragment, "top"}
Uuids == {"Uuid(1)", "Uuid(2)"}

\* Uuid's Display: the hyphenated lower-case form
UuidToString(u) ==
    IF u = "Uuid(1)" THEN <<"00000000-0000-0000-0000-000000000001">>
    ELSE <<"00000000-0000-0000-0000-000000000002">>

RECURSIVE SeqsUpTo(_, _)
SeqsUpTo(S, n) ==
    IF n = 0 THEN {<<>>}
    ELSE LET shorter == SeqsUpTo(S, n - 1)
         IN  shorter \cup {Append(s, x) : s \in {t \in shorter : Len(t) = n - 1}, x \in S}

Queries == SeqsUpTo(QueryTokens, MaxQueryLen)

Urls ==
    {[base |-> DefaultEndpointBase, hasQuery |-> FALSE, query |-> <<>>, fragment |-> f] :
        f \in Fragments}
    \cup
    {[base |-> DefaultEndpointBase, hasQuery |-> TRUE, query |-> q, fragment |-> f] :
        q \in Queries, f \in Fragments}

default_endpoint ==
    [base |-> DefaultEndpointBase, hasQuery |-> FALSE, query |-> <<>>,
     fragment |-> NoFragment]

\* form_urlencoded::byte_serialize on a token sequence: the separators are
\* percent-encoded, words of unreserved characters are written as they are
ByteSerialize(s) ==
    [i \in 1..Len(s) |->
        IF s[i] = "&" THEN "%26" ELSE IF s[i] = "=" THEN "%3D" ELSE s[i]]

\* the percent-decoding form_urlencoded::parse applies to names and values
Decode(s) ==
    [i \in 1..Len(s) |->
        IF s[i] = "%26" THEN "&" ELSE IF s[i] = "%3D" THEN "=" ELSE s[i]]

\* Serializer::append_pair: "&" unless the query is still empty, then name=value
AppendPair(url, name, value) ==
    [url EXCEPT !.query =
        (IF Len(@) > 0 THEN Append(@, "&") ELSE @)
            \o ByteSerialize(name) \o <<"=">> \o ByteSerialize(value)]

\* index of the first occurrence of tok in s, or 0
RECURSIVE IndexOf(_, _, _)
IndexOf(s, tok, from) ==
    IF from > Len(s) THEN 0
    ELSE IF s[from] = tok THEN from
    ELSE IndexOf(s, tok, from + 1)

\* one "name=value" segment: split at the first "=", both sides decoded
ParsePair(seg) ==
    LET eq == IndexOf(seg, "=", 1)
    IN  IF eq = 0 THEN <<Decode(seg), <<>>>>
        ELSE <<Decode(SubSeq(seg, 1, eq - 1)), Decode(SubSeq(seg, eq + 1, Len(seg)))>>

\* Url::query_pairs: the segments between "&", empty segments skipped
RECURSIVE ParseQuery(_)
ParseQuery(q) ==
    IF Len(q) = 0 THEN <<>>
    ELSE LET amp  == IndexOf(q, "&", 1)
             seg  == IF amp = 0 THEN q ELSE SubSeq(q, 1, amp - 1)
             rest == IF amp = 0 THEN <<>> ELSE SubSeq(q, amp + 1, Len(q))
         IN  IF Len(seg) = 0 THEN ParseQuery(rest)
             ELSE <<ParsePair(seg)>> \o ParseQuery(rest)

query_pairs(url) == ParseQuery(url.query)

(***************************************************************************)
(* config.rs: TissConfig                                                   *)
(***************************************************************************)
Link(url) ==
    [variant |-> "Link", link |-> url,
     endpoint |-> default_endpoint, locale |-> "-", token |-> "-"]

Components(endpoint, locale, token) ==
    [variant |-> "Components", link |-> default_endpoint,
     endpoint |-> endpoint, locale |-> locale, token |-> token]

TissConfigs ==
    {Link(u) : u \in Urls}
    \cup {Components(e, l, t) : e \in Urls, l \in Locale, t \in Uuids}

\* the Components arm of link(), on the clone of the endpoint:
\* query_pairs_mut() takes the fragment and opens the query, the two
\* append_pair calls follow, and dropping the serializer restores the fragment
AppendLocaleAndToken(endpoint, locale, token) ==
    LET taken  == endpoint.fragment
        opened == [endpoint EXCEPT !.hasQuery = TRUE, !.fragment = NoFragment]
        first  == AppendPair(opened, <<"locale">>, LocaleToString(locale))
        second == AppendPair(first, <<"token">>, UuidToString(token))
    IN  [second EXCEPT !.fragment = taken]

\* link() as it would be without `endpoint.clone()`: the pairs are appended to
\* the stored endpoint itself
LinkCallInPlace(self) ==
    IF self.variant = "Link"
    THEN [result |-> self.link, self |-> self]
    ELSE LET extended == AppendLocaleAndToken(self.endpoint, self.locale, self.token)
         IN  [result |-> extended, self |-> [self EXCEPT !.endpoint = extended]]

\* TissConfig::link: the URL returned, and the value of *self after the call
\* (the endpoint is cloned before it is extended, so self is left as it was)
LinkCall(self) ==
    IF self.variant = "Link"
    THEN [result |-> self.link, self |-> self]
    ELSE [result |-> AppendLocaleAndToken(self.endpoint, self.locale, self.token),
          self   |-> self]

link(self) == LinkCall(self).result

\* Iterator::find(|(key, _)| *key == "locale"): index of the first such pair, or 0
RECURSIVE FindKey(_, _, _)
FindKey(pairs, key, from) ==
    IF from > Len(pairs) THEN 0
    ELSE IF pairs[from][1] = key THEN from
    ELSE FindKey(pairs, key, from + 1)

\* TissConfig::locale.  The Link arm parses field .0 of the pair found,
\* which is the pair's key.
locale(self) ==
    IF self.variant = "Link"
    THEN LET pairs == query_pairs(self.link)
             found == FindKey(pairs, <<"locale">>, 1)
         IN  IF found = 0 THEN Err("MissingLocaleParameter")
             ELSE LocaleFromStr(pairs[found][1])
    ELSE Ok(self.locale)

(***************************************************************************)
(* main.rs: SPK_REGEX and the closure of `calendar.components.retain`      *)
(***************************************************************************)
Letters ==
    {"a", "b", "c", "d", "e", "f", "g", "h", "i", "j", "k", "l", "m",
     "n", "o", "p", "q", "r", "s", "t", "u", "v", "w", "x", "y", "z",
     "A", "B", "C", "D", "E", "F", "G", "H", "I", "J", "K", "L", "M",
     "N", "O", "P", "Q", "R", "S", "T", "U", "V", "W", "X", "Y", "Z"}
Digits == {"0", "1", "2", "3", "4", "5", "6", "7", "8", "9"}

\* the class \w of the regex crate, on the characters used here
IsWordChar(c) == c \in Letters \cup Digits \cup {"_"}

\* Regex "\WSPK\W" without its trailing \W
is_match_open_ended(s) ==
    \E i \in 1..(Len(s) - 3) :
        /\ ~IsWordChar(s[i])
        /\ s[i + 1] = "S" /\ s[i + 2] = "P" /\ s[i + 3] = "K"

\* SPK_REGEX.is_match: some five consecutive characters are a non-word
\* character, S, P, K and a non-word character
is_match(s) ==
    \E i \in 1..(Len(s) - 4) :
        /\ ~IsWordChar(s[i])
        /\ s[i + 1] = "S" /\ s[i + 2] = "P" /\ s[i + 3] = "K"
        /\ ~IsWordChar(s[i + 4])

Event(uid, description) ==
    [type |-> "Event", uid |-> uid, hasDescription |-> TRUE, description |-> description]
EventWithoutDescription(uid) ==
    [type |-> "Event", uid |-> uid, hasDescription |-> FALSE, description |-> <<>>]
OtherComponent(type, uid) ==
    [type |-> type, uid |-> uid, hasDescription |-> FALSE, description |-> <<>>]

\* the closure with the `else` arm of `if let Some(description)` dropping the event
RetainedOnlyIfDescribed(component) ==
    IF component.type = "Event"
    THEN component.hasDescription /\ ~is_match(component.description)
    ELSE TRUE

\* the closure passed to retain: TRUE keeps the component
Retained(component) ==
    IF component.type = "Event"
    THEN IF component.hasDescription
         THEN ~is_match(component.description)
         ELSE TRUE
    ELSE TRUE

\* a removal loop that steps over the component following each one it removes
RECURSIVE RetainSkippingAfterRemoval(_)
RetainSkippingAfterRemoval(components) ==
    IF Len(components) = 0 THEN <<>>
    ELSE IF Retained(Head(components))
    THEN <<Head(components)>> \o RetainSkippingAfterRemoval(Tail(components))
    ELSE IF Len(components) = 1 THEN <<>>
    ELSE <<components[2]>> \o RetainSkippingAfterRemoval(Tail(Tail(components)))

\* Vec::retain with the closure: the components it keeps, in their order
RetainComponents(components) == SelectSeq(components, Retained)

(***************************************************************************)
(* iCalendar text, as the handler sees it through the icalendar crate:     *)
(* a sequence of content lines <<name, value>>.                            *)
(***************************************************************************)
BlockName(type) ==
    IF type = "Event" THEN "VEVENT" ELSE IF type = "Todo" THEN "VTODO" ELSE "VTIMEZONE"

ComponentType(block) ==
    IF block = "VEVENT" THEN "Event" ELSE IF block = "VTODO" THEN "Todo" ELSE "Other"

SerializeComponent(c) ==
    <<<<"BEGIN", <<BlockName(c.type)>>>>, <<"UID", <<c.uid>>>>>>
        \o (IF c.hasDescription THEN <<<<"DESCRIPTION", c.description>>>> ELSE <<>>)
        \o <<<<"END", <<BlockName(c.type)>>>>>>

RECURSIVE SerializeComponents(_)
SerializeComponents(components) ==
    IF Len(components) = 0 THEN <<>>
    ELSE SerializeComponent(Head(components)) \o SerializeComponents(Tail(components))

\* Calendar's Display (calendar.to_string())
Serialize(components) ==
    <<<<"BEGIN", <<"VCALENDAR">>>>>>
        \o SerializeComponents(components)
        \o <<<<"END", <<"VCALENDAR">>>>>>

\* the components of the lines between BEGIN:VCALENDAR and END:VCALENDAR;
\* ok is FALSE when the lines are not a sequence of well-formed blocks
RECURSIVE ParseComponents(_)
ParseComponents(lines) ==
    IF Len(lines) = 0 THEN [ok |-> TRUE, components |-> <<>>]
    ELSE IF Len(lines) < 3 \/ lines[1][1] # "BEGIN" \/ lines[2][1] # "UID"
    THEN [ok |-> FALSE, components |-> <<>>]
    ELSE LET described == lines[3][1] = "DESCRIPTION"
             last      == IF described THEN 4 ELSE 3
         IN  IF Len(lines) < last \/ lines[last] # <<"END", lines[1][2]>>
             THEN [ok |-> FALSE, components |-> <<>>]
             ELSE LET c == [type           |-> ComponentType(lines[1][2][1]),
                            uid            |-> lines[2][2][1],
                            hasDescription |-> described,
                            description    |-> IF described THEN lines[3][2] ELSE <<>>]
                      rest == ParseComponents(SubSeq(lines, last + 1, Len(lines)))
                  IN  [ok |-> rest.ok,
                       components |-> IF rest.ok THEN <<c>> \o rest.components ELSE <<>>]

\* impl FromStr for Calendar (calendar.parse())
ParseCalendar(text) ==
    IF \/ Len(text) < 2
       \/ text[1] # <<"BEGIN", <<"VCALENDAR">>>>
       \/ text[Len(text)] # <<"END", <<"VCALENDAR">>>>
    THEN [ok |-> FALSE, components |-> <<>>]
    ELSE ParseComponents(SubSeq(text, 2, Len(text) - 1))

(***************************************************************************)
(* main.rs: calendar_response                                              *)
(***************************************************************************)
\* impl Into<LanguageTag> for Locale: the tag parsed from the locale's string
LanguageTag(l) == LocaleToString(l)

calendar_response(components, l) ==
    [status              |-> 200,
     content_type        |-> "text/calendar",
     content_disposition |-> [disposition |-> "attachment", filename |-> "personal.ics"],
     content_language    |-> <<[item |-> LanguageTag(l), quality |-> "max"]>>,
     body                |-> Serialize(components)]

(***************************************************************************)
(* Inputs                                                                  *)
(***************************************************************************)
SpkLecture == <<"S", "P", "K", " ", "L", "e", "c", "t", "u", "r", "e">>
BackSpkRoom == <<"b", "a", "c", "k", "S", "P", "K", "r", "o", "o", "m">>
Workshop == <<"W", "o", "r", "k", "s", "h", "o", "p">>
RoomSpk3Change ==
    <<"R", "o", "o", "m", " ", "S", "P", "K", "3", " ", "c", "h", "a", "n", "g", "e">>
VuSpkHs == <<"V", "U", " ", "S", "P", "K", ",", " ", "H", "S">>
PaddedSpk == <<" ", "S", "P", "K", " ">>
LowerSpk == <<" ", "s", "p", "k", " ">>

Descriptions ==
    {<<>>, SpkLecture, BackSpkRoom, Workshop, RoomSpk3Change, VuSpkHs, PaddedSpk, LowerSpk}

ComponentShapes ==
    {OtherComponent("Todo", ""), OtherComponent("Other", ""), EventWithoutDescription("")}
    \cup {Event("", d) : d \in Descriptions}

UidOf(i) == ToString(i)

WithUids(shapes) == [i \in 1..Len(shapes) |-> [shapes[i] EXCEPT !.uid = UidOf(i)]]

Documents == {WithUids(s) : s \in SeqsUpTo(ComponentShapes, MaxComponents)}

EndToEndDocument == <<Event("1", RoomSpk3Change), Event("2", Workshop)>>
MixedDocument ==
    <<OtherComponent("Other", "1"), Event("2", VuSpkHs), EventWithoutDescription("3")>>

NotACalendar == <<<<"<html>", <<>>>>>>

UpstreamBodies == {Serialize(EndToEndDocument), Serialize(MixedDocument), NotACalendar}
Statuses == {200, 404}
NoUpstream ==
    [kind |-> "none", url |-> default_endpoint, status |-> 0, body |-> <<>>,
     readable |-> FALSE]

\* what reqwest::get(url) can produce: an error below HTTP, or a response of any
\* status whose body can be read as text or breaks off
UpstreamOutcomes(url) ==
    {[kind |-> "error", url |-> url, status |-> 0, body |-> <<>>, readable |-> FALSE]}
    \cup {[kind |-> "response", url |-> url, status |-> st, body |-> b, readable |-> TRUE] :
            st \in Statuses, b \in UpstreamBodies}
    \cup {[kind |-> "response", url |-> url, status |-> st, body |-> <<>>, readable |-> FALSE] :
            st \in Statuses}

LocaleQuery(value) == <<"locale", "=", value>>
UrlWithQuery(q) ==
    [base |-> DefaultEndpointBase, hasQuery |-> TRUE, query |-> q, fragment |-> NoFragment]

\* the configurations the handler is run with
ServedConfigs ==
    {Link(default_endpoint),
     Link(UrlWithQuery(LocaleQuery("en") \o <<"&", "token", "=", "t">>)),
     Components(default_endpoint, "Locale::en", "Uuid(1)"),
     Components(default_endpoint, "Locale::de", "Uuid(2)"),
     Components(UrlWithQuery(LocaleQuery("de")), "Locale::en", "Uuid(1)")}

Requests == 1..NumRequests

(***************************************************************************)
(* Calls of TissConfig's methods on a configuration                        *)
(***************************************************************************)
ConfigInit ==
    /\ config \in TissConfigs
    /\ links = <<>>
    /\ locales = <<>>
    /\ document = <<>>
    /\ passes = <<>>
    /\ pc = [r \in Requests |-> "done"]
    /\ upstream = [r \in Requests |-> NoUpstream]
    /\ calendar = [r \in Requests |-> <<>>]
    /\ response = [r \in Requests |-> <<>>]
    /\ steps = [r \in Requests |-> <<>>]
    /\ gets = [r \in Requests |-> 0]

CallLink ==
    /\ Len(links) < MaxCalls
    /\ links' = Append(links, LinkCall(config).result)
    /\ config' = LinkCall(config).self
    /\ UNCHANGED <<locales, document, passes, pc, upstream, calendar, response, steps, gets>>

CallLocale ==
    /\ locales = <<>>
    /\ locales' = <<locale(config)>>
    /\ UNCHANGED <<config, links, document, passes, pc, upstream, calendar, response,
                   steps, gets>>

ConfigNext == CallLink \/ CallLocale

ConfigSpec == ConfigInit /\ [][ConfigNext]_vars

(***************************************************************************)
(* The event filter of the handler (main.rs 47-58) on a Calendar           *)
(***************************************************************************)
FilterInit ==
    /\ document \in Documents
    /\ passes = <<>>
    /\ config = Link(default_endpoint)
    /\ links = <<>>
    /\ locales = <<>>
    /\ pc = [r \in Requests |-> "done"]
    /\ upstream = [r \in Requests |-> NoUpstream]
    /\ calendar = [r \in Requests |-> <<>>]
    /\ response = [r \in Requests |-> <<>>]
    /\ steps = [r \in Requests |-> <<>>]
    /\ gets = [r \in Requests |-> 0]

FilterPass ==
    /\ Len(passes) < MaxCalls
    /\ LET components == IF passes = <<>> THEN document ELSE passes[Len(passes)]
       IN  passes' = Append(passes, RetainComponents(components))
    /\ UNCHANGED <<config, links, locales, document, pc, upstream, calendar, response,
                   steps, gets>>

FilterNext == FilterPass

FilterSpec == FilterInit /\ [][FilterNext]_vars

(***************************************************************************)
(* main.rs: the request handler `calendar`, one instance per request       *)
(***************************************************************************)
\* the handler with the locale resolved before the upstream GET
HandlerOrderLocaleFirst ==
    <<"link", "locale", "get", "text", "parse", "retain", "calendar_response">>

\* the statements of the handler in the order of the source:
\* line 42 link(), 43 reqwest::get, 44 text(), 45 parse(), 47-58 retain,
\* 60 locale() and then calendar_response
HandlerOrder ==
    <<"link", "get", "text", "parse", "retain", "locale", "calendar_response">>

After(stmt) ==
    LET i == CHOOSE k \in 1..Len(HandlerOrder) : HandlerOrder[k] = stmt
    IN  IF i = Len(HandlerOrder) THEN "done" ELSE HandlerOrder[i + 1]

Init ==
    /\ config \in ServedConfigs
    /\ links = <<>>
    /\ locales = <<>>
    /\ document = <<>>
    /\ passes = <<>>
    /\ pc = [r \in Requests |-> HandlerOrder[1]]
    /\ upstream = [r \in Requests |-> NoUpstream]
    /\ calendar = [r \in Requests |-> <<>>]
    /\ response = [r \in Requests |-> <<>>]
    /\ steps = [r \in Requests |-> <<>>]
    /\ gets = [r \in Requests |-> 0]

\* what no handler step changes
Fixed == <<config, links, locales, document, passes>>

\* line 42: let tiss_link = config.tiss.link();
HandlerLink(r) ==
    /\ pc[r] = "link"
    /\ pc' = [pc EXCEPT ![r] = After("link")]
    /\ steps' = [steps EXCEPT ![r] = Append(@, "ResolveUrl")]
    /\ UNCHANGED <<Fixed, upstream, calendar, response, gets>>

\* line 43: reqwest::get(tiss_link).await.unwrap(): only an Err panics
HandlerGet(r) ==
    /\ pc[r] = "get"
    /\ gets' = [gets EXCEPT ![r] = @ + 1]
    /\ steps' = [steps EXCEPT ![r] = Append(@, "Fetch")]
    /\ \E outcome \in UpstreamOutcomes(link(config)) :
        /\ upstream' = [upstream EXCEPT ![r] = outcome]
        /\ pc' = [pc EXCEPT ![r] =
                    IF outcome.kind = "error" THEN "panicked" ELSE After("get")]
    /\ UNCHANGED <<Fixed, calendar, response>>

\* line 44: response.text().await.unwrap()
HandlerText(r) ==
    /\ pc[r] = "text"
    /\ IF upstream[r].readable
       THEN /\ calendar' = [calendar EXCEPT ![r] = upstream[r].body]
            /\ pc' = [pc EXCEPT ![r] = After("text")]
       ELSE /\ pc' = [pc EXCEPT ![r] = "panicked"]
            /\ UNCHANGED calendar
    /\ UNCHANGED <<Fixed, upstream, response, steps, gets>>

\* line 45: calendar.parse().unwrap()
HandlerParse(r) ==
    /\ pc[r] = "parse"
    /\ steps' = [steps EXCEPT ![r] = Append(@, "Parse")]
    /\ LET parsed == ParseCalendar(calendar[r])
       IN  IF parsed.ok
           THEN /\ calendar' = [calendar EXCEPT ![r] = parsed.components]
                /\ pc' = [pc EXCEPT ![r] = After("parse")]
           ELSE /\ pc' = [pc EXCEPT ![r] = "panicked"]
                /\ UNCHANGED calendar
    /\ UNCHANGED <<Fixed, upstream, response, gets>>

\* lines 47-58: calendar.components.retain(...)
HandlerRetain(r) ==
    /\ pc[r] = "retain"
    /\ steps' = [steps EXCEPT ![r] = Append(@, "Filter")]
    /\ calendar' = [calendar EXCEPT ![r] = RetainComponents(@)]
    /\ pc' = [pc EXCEPT ![r] = After("retain")]
    /\ UNCHANGED <<Fixed, upstream, response, gets>>

\* line 60, the argument: config.tiss.locale().unwrap()
HandlerLocale(r) ==
    /\ pc[r] = "locale"
    /\ steps' = [steps EXCEPT ![r] = Append(@, "ResolveLocale")]
    /\ pc' = [pc EXCEPT ![r] = IF locale(config).ok THEN After("locale") ELSE "panicked"]
    /\ UNCHANGED <<Fixed, upstream, calendar, response, gets>>

\* line 60, the call: calendar_response(calendar, locale), returned to the client
HandlerCalendarResponse(r) ==
    /\ pc[r] = "calendar_response"
    /\ steps' = [steps EXCEPT ![r] = @ \o <<"Serialize", "BuildResponse">>]
    /\ response' = [response EXCEPT ![r] =
                        <<calendar_response(calendar[r], locale(config).value)>>]
    /\ pc' = [pc EXCEPT ![r] = After("calendar_response")]
    /\ UNCHANGED <<Fixed, upstream, calendar, gets>>

Next ==
    \E r \in Requests :
        \/ HandlerLink(r)
        \/ HandlerGet(r)
        \/ HandlerText(r)
        \/ HandlerParse(r)
        \/ HandlerRetain(r)
        \/ HandlerLocale(r)
        \/ HandlerCalendarResponse(r)

Spec == Init /\ [][Next]_vars

(***************************************************************************)
(* Properties                                                              *)
(***************************************************************************)
IsPrefix(a, b) == Len(a) <= Len(b) /\ a = SubSeq(b, 1, Len(a))

RECURSIVE IsSubsequence(_, _)
IsSubsequence(a, b) ==
    IF Len(a) = 0 THEN TRUE
    ELSE IF Len(b) = 0 THEN FALSE
    ELSE IF Head(a) = Head(b) THEN IsSubsequence(Tail(a), Tail(b))
    ELSE IsSubsequence(a, Tail(b))

Range(f) == {f[i] : i \in DOMAIN f}

\* the values of the query parameters of url whose key is `locale`
LocaleParameterValues(url) ==
    {p[2] : p \in {q \in Range(query_pairs(url)) : q[1] = <<"locale">>}}

\* C1: for a Link configuration, locale() is decided by the value of the
\* `locale` query parameter: en gives en, de gives de, no such parameter gives
\* MissingLocaleParameter, any other value gives UnrecognizedLocale.
C1_LinkLocaleFollowsParameterValue ==
    (config.variant = "Link" /\ locales # <<>>) =>
        LET values == LocaleParameterValues(config.link)
        IN  IF values = {} THEN locales[1] = Err("MissingLocaleParameter")
            ELSE locales[1] \in {LocaleFromStr(v) : v \in values}

\* the description contains SPK with no word character directly before or
\* after it, the two ends of the description counting as no word character
ContainsSpkToken(s) ==
    \E i \in 1..(Len(s) - 2) :
        /\ s[i] = "S" /\ s[i + 1] = "P" /\ s[i + 2] = "K"
        /\ (i = 1 \/ ~IsWordChar(s[i - 1]))
        /\ (i + 2 = Len(s) \/ ~IsWordChar(s[i + 3]))

\* C2: the filter removes an Event exactly when its description contains the
\* token SPK not adjacent to a word character on either side, so that of
\* "SPK Lecture", "backSPKroom" and "Workshop" only the first is removed.
C2_RemovesExactlySpkTokens ==
    passes # <<>> =>
        \A i \in 1..Len(document) :
            (document[i] \in Range(passes[1])) <=>
                ~(/\ document[i].type = "Event"
                  /\ document[i].hasDescription
                  /\ ContainsSpkToken(document[i].description))

\* C3: for a Components configuration, locale() returns the stored locale, and
\* link() is the endpoint with locale=<code> and then token=<token> appended
\* after the endpoint's own query parameters; repeated calls of link() return
\* the same URL and leave the stored endpoint as it was.
C3_ComponentsResolve ==
    config.variant = "Components" =>
        /\ \A i \in 1..Len(locales) : locales[i] = Ok(config.locale)
        /\ \A i \in 1..Len(links) :
            /\ links[i].base = config.endpoint.base
            /\ links[i].fragment = config.endpoint.fragment
            /\ links[i].hasQuery
            /\ IsPrefix(config.endpoint.query, links[i].query)
            /\ query_pairs(links[i]) =
                   query_pairs(config.endpoint)
                       \o <<<<<<"locale">>, LocaleToString(config.locale)>>,
                            <<<<"token">>, UuidToString(config.token)>>>>
        /\ \A i, j \in 1..Len(links) : links[i] = links[j]

C3_Witness ==
    /\ config.variant = "Components"
    /\ Len(links) = 2
    /\ locales # <<>>
    /\ query_pairs(config.endpoint) # <<>>
    /\ config.endpoint.fragment # NoFragment

\* C4: for a Components configuration c, Link(c.link()) has the same link()
\* as c, and its locale() succeeds with c's stored locale.
C4_VariantsEquivalent ==
    (config.variant = "Components" /\ links # <<>>) =>
        /\ link(Link(links[1])) = links[1]
        /\ locale(Link(links[1])) = Ok(config.locale)

ExpectedResponse(body) ==
    <<[status              |-> 200,
       content_type        |-> "text/calendar",
       content_disposition |-> [disposition |-> "attachment", filename |-> "personal.ics"],
       content_language    |-> <<[item |-> LocaleToString(locale(config).value),
                                  quality |-> "max"]>>,
       body                |-> body]>>

Ended(r) == pc[r] \in {"done", "panicked"}

EndToEndCase(r) ==
    /\ locale(config).ok
    /\ upstream[r].kind = "response"
    /\ upstream[r].readable
    /\ upstream[r].body = Serialize(EndToEndDocument)
    /\ Ended(r)

\* C5 as stated: with a configuration whose locale resolves and an upstream
\* calendar of two events, one described "Room SPK3 change", the response is
\* 200 with the headers of calendar_response and a body holding only the
\* other event.
C5_EndToEndDropsSpk3 ==
    \A r \in Requests :
        EndToEndCase(r) =>
            /\ pc[r] = "done"
            /\ response[r] = ExpectedResponse(Serialize(<<EndToEndDocument[2]>>))

\* C5 as amended: in that case the response is 200 with Content-Type
\* text/calendar, Content-Disposition attachment; filename="personal.ics",
\* Content-Language the configured locale code alone, and a body that is the
\* serialized calendar with both events: in "Room SPK3 change" the character
\* after SPK is a word character, so the event is kept.
C5_EndToEndKeepsSpk3 ==
    \A r \in Requests :
        EndToEndCase(r) =>
            /\ pc[r] = "done"
            /\ response[r] = ExpectedResponse(Serialize(EndToEndDocument))

C5_Witness ==
    \E r \in Requests :
        /\ EndToEndCase(r)
        /\ upstream[r].status = 200
        /\ response[r] # <<>>
        /\ config.variant = "Components"

\* C6: when the upstream GET fails below HTTP or returns a non-2xx status,
\* the request is aborted: the body is never parsed, filtered or served and
\* no response is produced from it.
C6_FailedFetchAborts ==
    \A r \in Requests :
        (\/ upstream[r].kind = "error"
         \/ upstream[r].kind = "response" /\ upstream[r].status \notin 200..299) =>
            /\ "Parse" \notin Range(steps[r])
            /\ response[r] = <<>>

\* C7: a failure of a request's fetch, parse or locale resolution never ends
\* the handler abnormally, and every request that ended without its calendar
\* response ended with an error response.
C7_FailuresReturnErrorResponses ==
    \A r \in Requests :
        /\ pc[r] # "panicked"
        /\ (Ended(r) /\ ~(response[r] # <<>> /\ response[r][1].status = 200)) =>
               (response[r] # <<>> /\ response[r][1].status \in 500..599)

AlwaysKept(c) == c.type # "Event" \/ ~c.hasDescription \/ c.description = <<>>

Matching(c) == c.type = "Event" /\ c.hasDescription /\ is_match(c.description)

\* C8: the filter's output is an order-preserving subsequence of its input
\* that keeps every non-Event component, every Event without a description
\* and every Event with an empty description; a document none of whose
\* Events has a matching description comes back unchanged.
C8_FilterKeepsOrderAndUnmatched ==
    passes # <<>> =>
        /\ IsSubsequence(passes[1], document)
        /\ SelectSeq(passes[1], AlwaysKept) = SelectSeq(document, AlwaysKept)
        /\ (\A i \in 1..Len(document) : ~Matching(document[i])) => passes[1] = document

C8_Witness ==
    /\ passes # <<>>
    /\ Len(document) = 3
    /\ Len(passes[1]) = 2
    /\ \E i \in 1..3 : document[i].type # "Event"
    /\ \E i \in 1..3 : document[i].type = "Event" /\ AlwaysKept(document[i])

\* C9: filtering an already filtered document gives the component sequence
\* the first filtering gave.
C9_FilterIdempotent == Len(passes) >= 2 => passes[2] = passes[1]

C9_Witness ==
    /\ Len(passes) >= 2
    /\ Len(passes[1]) < Len(document)
    /\ Len(passes[1]) > 0

SpecStepOrder ==
    <<"ResolveUrl", "ResolveLocale", "Fetch", "Parse", "Filter", "Serialize",
      "BuildResponse">>

CodeStepOrder ==
    <<"ResolveUrl", "Fetch", "Parse", "Filter", "ResolveLocale", "Serialize",
      "BuildResponse">>

C10_StepsInCodeOrder ==
    \A r \in Requests :
        /\ IsPrefix(steps[r], CodeStepOrder)
        /\ gets[r] = (IF "Fetch" \in Range(steps[r]) THEN 1 ELSE 0)
        /\ pc[r] = "done" <=> steps[r] = CodeStepOrder

C10_NothingAfterPanic ==
    \A r \in Requests :
        pc[r] = "panicked" =>
            /\ pc'[r] = pc[r]
            /\ steps'[r] = steps[r]
            /\ gets'[r] = gets[r]
            /\ response'[r] = response[r]

====
